---- MODULE Spec2Model ----
(***************************************************************************)
(* Model of cake's schedule parser, parseMastersSchedule (src/main.go),    *)
(* and of the daemon handler that calls it.                                *)
(*                                                                         *)
(* A string is a sequence of characters; a character is a one-letter       *)
(* string.  Cyrillic letters are written as the atoms "#x" (lower case)    *)
(* and "#X" (upper case) of their transliteration: "#m" "#a" "#j" is the   *)
(* word for May.  Go's int is taken to be 32 bits wide (GOARCH=386, arm).  *)
(***************************************************************************)
EXTENDS Integers, Sequences, FiniteSets, TLC

----------------------------------------------------------------------------
(* Characters and the classes the regular expressions use.                 *)

Digits == <<"0", "1", "2", "3", "4", "5", "6", "7", "8", "9">>

LatinUpper == <<"A", "B", "C", "D", "E", "F", "G", "H", "I", "J", "K", "L", "M",
                "N", "O", "P", "Q", "R", "S", "T", "U", "V", "W", "X", "Y", "Z">>

LatinLower == <<"a", "b", "c", "d", "e", "f", "g", "h", "i", "j", "k", "l", "m",
                "n", "o", "p", "q", "r", "s", "t", "u", "v", "w", "x", "y", "z">>

CyrUpper == <<"#A", "#B", "#V", "#G", "#D", "#E", "#I", "#J", "#K", "#L", "#M",
              "#N", "#O", "#P", "#R", "#S", "#T", "#U", "#F", "#Q", "#YU", "#YA">>

CyrLower == <<"#a", "#b", "#v", "#g", "#d", "#e", "#i", "#j", "#k", "#l", "#m",
              "#n", "#o", "#p", "#r", "#s", "#t", "#u", "#f", "#q", "#yu", "#ya">>

Range(s) == {s[i] : i \in 1..Len(s)}

\* \d
DigitChars == Range(Digits)

\* \w : ASCII letters, digits and the underscore
WordChars == Range(Digits) \cup Range(LatinUpper) \cup Range(LatinLower) \cup {"_"}

\* \s ; \S is its complement
SpaceChars == {" ", "\t", "\n", "\r", "\f"}

\* [\w.]
WordDotChars == WordChars \cup {"."}

\* a character class: the characters of set when pos, every other character
\* when not
InClass(c, set, pos) == (c \in set) = pos

----------------------------------------------------------------------------
(* package strings                                                         *)

HasPrefixAt(s, i, p) ==
    /\ i >= 1
    /\ i + Len(p) - 1 <= Len(s)
    /\ \A k \in 1..Len(p) : s[i + k - 1] = p[k]

\* strings.Contains
Contains(s, sub) == \E i \in 1..(Len(s) - Len(sub) + 1) : HasPrefixAt(s, i, sub)

\* strings.ContainsAny
ContainsAny(s, chars) == \E i \in 1..Len(s) : s[i] \in chars

Min(S) == CHOOSE x \in S : \A y \in S : x <= y

Max(S) == CHOOSE x \in S : \A y \in S : x >= y

\* strings.TrimSpace
TrimSpace(s) ==
    LET keep == {i \in 1..Len(s) : s[i] \notin SpaceChars}
    IN  IF keep = {} THEN <<>> ELSE SubSeq(s, Min(keep), Max(keep))

\* strings.ToLower, one character
LowerChar(c) ==
    IF \E i \in 1..Len(LatinUpper) : LatinUpper[i] = c
    THEN LatinLower[CHOOSE i \in 1..Len(LatinUpper) : LatinUpper[i] = c]
    ELSE IF \E i \in 1..Len(CyrUpper) : CyrUpper[i] = c
         THEN CyrLower[CHOOSE i \in 1..Len(CyrUpper) : CyrUpper[i] = c]
         ELSE c

\* strings.ToLower
ToLower(s) == [i \in 1..Len(s) |-> LowerChar(s[i])]

RECURSIVE RunEnd(_, _, _, _)
\* the last index of the longest run of characters of the class (set, pos)
\* that starts at i, where s[i] is of the class
RunEnd(s, i, set, pos) ==
    IF i < Len(s) /\ InClass(s[i + 1], set, pos) THEN RunEnd(s, i + 1, set, pos) ELSE i

----------------------------------------------------------------------------
(* The regular expressions.  Each operator returns the list of submatches  *)
(* of the leftmost match (FindStringSubmatch), or << >> when none.         *)

\* (rgb\([^)]+\)|highlight-\w+) anchored at q: the last index of the match, 0 if none
ColourEndAt(s, q) ==
    IF HasPrefixAt(s, q, <<"r", "g", "b", "(">>)
    THEN IF q + 4 <= Len(s) /\ s[q + 4] # ")"
            /\ RunEnd(s, q + 4, {")"}, FALSE) < Len(s)
         THEN RunEnd(s, q + 4, {")"}, FALSE) + 1
         ELSE 0
    ELSE IF HasPrefixAt(s, q, <<"h", "i", "g", "h", "l", "i", "g", "h", "t", "-">>)
            /\ q + 10 <= Len(s) /\ s[q + 10] \in WordChars
         THEN RunEnd(s, q + 10, WordChars, TRUE)
         ELSE 0

\* `<td.*?(rgb\([^)]+\)|highlight-\w+)`
reContactName(s) ==
    LET tds == {p \in 1..Len(s) : HasPrefixAt(s, p, <<"<", "t", "d">>)}
    IN  IF tds = {} THEN <<>>
        ELSE LET p  == Min(tds)
                 qs == {q \in (p + 3)..Len(s) : ColourEndAt(s, q) # 0}
             IN  IF qs = {} THEN <<>>
                 ELSE LET q == Min(qs)
                      IN  <<SubSeq(s, p, ColourEndAt(s, q)),
                            SubSeq(s, q, ColourEndAt(s, q))>>

\* `[\w.]+@\S+`
reContactEmail(s) ==
    LET starts == {b \in 1..Len(s) :
                      /\ s[b] \in WordDotChars
                      /\ LET e == RunEnd(s, b, WordDotChars, TRUE)
                         IN  /\ e + 2 <= Len(s)
                             /\ s[e + 1] = "@"
                             /\ s[e + 2] \notin SpaceChars}
    IN  IF starts = {} THEN <<>>
        ELSE LET b == Min(starts)
                 e == RunEnd(s, b, WordDotChars, TRUE)
             IN  <<SubSeq(s, b, RunEnd(s, e + 2, SpaceChars, FALSE))>>

\* `https://.*slack.com/messages/([^"]+)`
reContactSlack(s) ==
    LET starts == {b \in 1..Len(s) :
                      HasPrefixAt(s, b, <<"h", "t", "t", "p", "s", ":", "/", "/">>)}
        tails(b) == {t \in (b + 8)..Len(s) :
                      /\ HasPrefixAt(s, t, <<"s", "l", "a", "c", "k">>)
                      /\ HasPrefixAt(s, t + 6,
                            <<"c", "o", "m", "/", "m", "e", "s", "s", "a", "g", "e", "s", "/">>)
                      /\ t + 19 <= Len(s)
                      /\ s[t + 19] # "\""}
    IN  IF starts = {} THEN <<>>
        ELSE IF tails(Min(starts)) = {} THEN <<>>
        ELSE LET b == Min(starts)
                 t == Max(tails(b))
                 e == RunEnd(s, t + 19, {"\""}, FALSE)
             IN  <<SubSeq(s, b, e), SubSeq(s, t + 19, e)>>

\* `(\S+), (\d+)`
reContactMonth(s) ==
    LET starts == {b \in 1..Len(s) :
                      /\ s[b] \notin SpaceChars
                      /\ LET e == RunEnd(s, b, SpaceChars, FALSE)
                         IN  /\ e > b
                             /\ s[e] = ","
                             /\ e + 2 <= Len(s)
                             /\ s[e + 1] = " "
                             /\ s[e + 2] \in DigitChars}
    IN  IF starts = {} THEN <<>>
        ELSE LET b == Min(starts)
                 e == RunEnd(s, b, SpaceChars, FALSE)
             IN  <<SubSeq(s, b, RunEnd(s, e + 2, DigitChars, TRUE)),
                   SubSeq(s, b, e - 1),
                   SubSeq(s, e + 2, RunEnd(s, e + 2, DigitChars, TRUE))>>

----------------------------------------------------------------------------
(* strconv.Atoi, with the error discarded as line 388 discards it.         *)

\* the largest int
MaxInt == 2147483647

MinInt == (-MaxInt) - 1

DigitVal(c) == (CHOOSE i \in 1..10 : Digits[i] = c) - 1

RECURSIVE ParseDigits(_, _, _)
\* the value of the digits ds, accumulated away from zero and clamped to the
\* int range as ParseInt does on a range error
ParseDigits(ds, acc, neg) ==
    IF ds = <<>> THEN acc
    ELSE LET d == DigitVal(Head(ds))
         IN  IF neg
             THEN IF acc < (MinInt + d) \div 10 + (IF (MinInt + d) % 10 = 0 THEN 0 ELSE 1)
                  THEN MinInt
                  ELSE ParseDigits(Tail(ds), acc * 10 - d, neg)
             ELSE IF acc > (MaxInt - d) \div 10
                  THEN MaxInt
                  ELSE ParseDigits(Tail(ds), acc * 10 + d, neg)

\* day, _ := strconv.Atoi(line): 0 on a syntax error, the nearest bound on a
\* range error
Atoi(s) ==
    LET signed == Len(s) > 0 /\ s[1] \in {"+", "-"}
        ds     == IF signed THEN Tail(s) ELSE s
    IN  IF ds = <<>> \/ \E i \in 1..Len(ds) : ds[i] \notin DigitChars
        THEN 0
        ELSE ParseDigits(ds, 0, signed /\ s[1] = "-")

----------------------------------------------------------------------------
(* The month table and time.Date(...).Format("2006-01-02").                *)

months ==
       (<<"#ya", "#n", "#v", "#a", "#r", "#q">> :> 1)
    @@ (<<"#f", "#e", "#v", "#r", "#a", "#l", "#q">> :> 2)
    @@ (<<"#m", "#a", "#r", "#t">> :> 3)
    @@ (<<"#a", "#p", "#r", "#e", "#l", "#q">> :> 4)
    @@ (<<"#m", "#a", "#j">> :> 5)
    @@ (<<"#i", "#yu", "#n", "#q">> :> 6)
    @@ (<<"#i", "#yu", "#l", "#q">> :> 7)
    @@ (<<"#a", "#v", "#g", "#u", "#s", "#t">> :> 8)
    @@ (<<"#s", "#e", "#n", "#t", "#ya", "#b", "#r", "#q">> :> 9)
    @@ (<<"#o", "#k", "#t", "#ya", "#b", "#r", "#q">> :> 10)
    @@ (<<"#n", "#o", "#ya", "#b", "#r", "#q">> :> 11)
    @@ (<<"#d", "#e", "#k", "#a", "#b", "#r", "#q">> :> 12)

\* months[strings.ToLower(month)]: a missing key reads as the zero value
MonthNumber(month) ==
    IF ToLower(month) \in DOMAIN months THEN months[ToLower(month)] ELSE 0

\* the days in 400 Gregorian years
DaysPer400Years == 146097

\* the number of the day y-m-d (m in 1..12, d any integer) counted from
\* 0000-03-01, the count time.Date makes before it adds the day
DaysFromCivil(y, m, d) ==
    LET yy  == IF m <= 2 THEN y - 1 ELSE y
        era == yy \div 400
        yoe == yy - era * 400
        doy == (153 * (IF m > 2 THEN m - 3 ELSE m + 9) + 2) \div 5 + d - 1
    IN  era * DaysPer400Years + yoe * 365 + yoe \div 4 - yoe \div 100 + doy

\* the calendar date <<year, month, day>> of day number z
CivilFromDays(z) ==
    LET era == z \div DaysPer400Years
        doe == z - era * DaysPer400Years
        yoe == (doe - doe \div 1460 + doe \div 36524 - doe \div 146096) \div 365
        doy == doe - (365 * yoe + yoe \div 4 - yoe \div 100)
        mp  == (5 * doy + 2) \div 153
        m   == IF mp < 10 THEN mp + 3 ELSE mp - 9
    IN  <<yoe + era * 400 + (IF m <= 2 THEN 1 ELSE 0), m, doy - (153 * mp + 2) \div 5 + 1>>

\* time.Date(year, month, day, 0, 0, 0, 0, time.Local), as <<year, month, day>>:
\* the month is normalised into 1..12 (month 0 is December of the year before),
\* then the day overflows into the neighbouring months and years
Date(year, month, day) ==
    LET m0 == month - 1
        y  == year + (m0 \div 12)
        m  == (m0 % 12) + 1
        r  == day % DaysPer400Years
        q  == (day \div DaysPer400Years) - (IF r = 0 THEN 1 ELSE 0)
        t  == CivilFromDays(DaysFromCivil(y, m, IF r = 0 THEN DaysPer400Years ELSE r))
    IN  <<t[1] + 400 * q, t[2], t[3]>>

RECURSIVE Itoa(_)
\* the decimal digits of n >= 0
Itoa(n) == IF n < 10 THEN <<Digits[n + 1]>> ELSE Itoa(n \div 10) \o <<Digits[(n % 10) + 1]>>

RECURSIVE Pad(_, _)
\* zero padding on the left to the width w
Pad(s, w) == IF Len(s) >= w THEN s ELSE Pad(<<"0">> \o s, w)

\* Time.Format("2006-01-02")
Format(t) ==
    (IF t[1] < 0 THEN <<"-">> \o Pad(Itoa(-t[1]), 4) ELSE Pad(Itoa(t[1]), 4))
        \o <<"-">> \o Pad(Itoa(t[2]), 2) \o <<"-">> \o Pad(Itoa(t[3]), 2)

----------------------------------------------------------------------------
(* The input: the lines strings.Split hands to the loop, before TrimSpace. *)

LTdRed == <<"<", "t", "d", " ", "c", "l", "a", "s", "s", "=", "\"", "h", "i", "g", "h", "l", "i", "g", "h", "t", "-", "r", "e", "d", "\"", ">">>

LTdReddish == <<"<", "t", "d", " ", "c", "l", "a", "s", "s", "=", "\"", "h", "i", "g", "h", "l", "i", "g", "h", "t", "-", "r", "e", "d", "d", "i", "s", "h", "\"", ">">>

LBob == <<" ", "B", "o", "b", " ">>

LEmail == <<"a", "l", "i", "c", "e", "@", "x", ".", "c", "o", "m", " ", "/", " ">>

LSlack == <<"<", "a", " ", "h", "r", "e", "f", "=", "\"", "h", "t", "t", "p", "s", ":", "/", "/", "x", ".", "s", "l", "a", "c", "k", ".", "c", "o", "m", "/", "m", "e", "s", "s", "a", "g", "e", "s", "/", "@", "a", "l", "i", "c", "e", "\"", ">">>

LRowClose == <<"<", "/", "t", "r", ">">>

LTableClose == <<"<", "/", "t", "a", "b", "l", "e", ">">>

LEmpty == <<>>

LMay == <<" ", "#M", "#a", "#j", ",", " ", "2", "0", "2", "4">>

LMayLatin == <<"M", "a", "y", ",", " ", "2", "0", "2", "4">>

LDay15 == <<"1", "5">>

LDayBig == <<"9", "9", "9", "9", "9", "9", "9", "9", "9", "9">>

\* an input is made of the lines of one of these sets: a roster table with
\* contacts, a calendar of two colours one of which contains the other, a
\* calendar with cells of every kind
RosterLines == {LTdRed, LBob, LEmail, LSlack, LRowClose, LTableClose, LEmpty}

ColourLines == {LTdRed, LTdReddish, LRowClose, LTableClose, LMay, LDay15}

CellLines == {LTdRed, LRowClose, LTableClose, LMayLatin, LDay15, LDayBig, LEmpty}

Inputs == {RosterLines, ColourLines, CellLines}

\* The values of TrimSpace and of the regular expressions on the lines of the
\* inputs, computed once; on any other string the operators are evaluated.
RawLines == UNION Inputs

TrimTable == [raw \in RawLines |-> TrimSpace(raw)]

Trim(raw) == IF raw \in RawLines THEN TrimTable[raw] ELSE TrimSpace(raw)

TrimmedLines == {TrimSpace(raw) : raw \in RawLines}

ContactNameTable == [l \in TrimmedLines |-> reContactName(l)]

ContactEmailTable == [l \in TrimmedLines |-> reContactEmail(l)]

ContactSlackTable == [l \in TrimmedLines |-> reContactSlack(l)]

ContactMonthTable == [l \in TrimmedLines |-> reContactMonth(l)]

\* reContactName.FindStringSubmatch(l)
FindContactName(l) == IF l \in TrimmedLines THEN ContactNameTable[l] ELSE reContactName(l)

\* reContactEmail.FindStringSubmatch(l)
FindContactEmail(l) == IF l \in TrimmedLines THEN ContactEmailTable[l] ELSE reContactEmail(l)

\* reContactSlack.FindStringSubmatch(l)
FindContactSlack(l) == IF l \in TrimmedLines THEN ContactSlackTable[l] ELSE reContactSlack(l)

\* reContactMonth.FindStringSubmatch(l)
FindContactMonth(l) == IF l \in TrimmedLines THEN ContactMonthTable[l] ELSE reContactMonth(l)

\* the values time.Now() takes during a parse, as [Year, Month, Day]
Nows == {[Year |-> 2024, Month |-> 5, Day |-> 15], [Year |-> 2023, Month |-> 1, Day |-> 15]}

\* at most this many roster rows are started
MaxMasters == 2

\* at most this many calendar cells are attributed
MaxDuty == 2

----------------------------------------------------------------------------
(* The state of parseMastersSchedule.                                      *)

parserStateContacts == "Contacts"

parserStateName == "Name"

parserStateContactInfo == "ContactInfo"

parserStateSchedule == "Schedule"

parserStateDay == "Day"

\* duty{}
ZeroDuty == [Month |-> <<>>, Day |-> 0, Date |-> <<>>]

\* master{}
ZeroMaster ==
    [Current |-> FALSE, Today |-> ZeroDuty, Name |-> <<>>, Email |-> <<>>,
     Slack |-> <<>>, SlackShort |-> <<>>, Colour |-> <<>>, duty |-> <<>>]

VARIABLES
    state,      \* the parser state
    masters,    \* the roster
    alloc,      \* the struct allocated by `master := &master{}`
    master,     \* the pointer master: 0 is &alloc, i > 0 is &masters[i]
    month,      \* the active month name
    line,       \* the trimmed line of the latest iteration
    pc,         \* "loop" inside the for loop, "done" after the return
    now,        \* time.Now()
    lines,      \* the set of lines the input is made of
    hdrSeen,    \* history: the month word of the latest header-pattern line, in any state
    hdrSched,   \* history: the same, of the lines met in the Schedule state only
    row,        \* history: the contacts matched since the latest name line
    closed,     \* history: the number of row-close markers met in the ContactInfo state
    rowHead,    \* history: the colour and the name of the row the input is in
    rowHeads,   \* history: the same, of every row closed so far, in order
    tableClosed,  \* history: a table-close marker was met in the Contacts state
    days        \* history: the number of lines met in the Day state

\* main in daemon mode: the variables the handler closure captures, and the
\* handler goroutines, one per request
VARIABLES
    mainMasters,  \* var masters []master of main
    mainErr,      \* err of main
    handler,      \* the position of each request's handler
    mastersJSON,  \* the local mastersJSON of each handler
    response,     \* the bodies written to each request's ResponseWriter
    parsed        \* history: what each request's own call of parseMastersSchedule returned

\* main in one-shot mode: the page, the tokenizer and the range loop
VARIABLES
    page,          \* confluencePage, the text handed to parseMastersSchedule
    splittedBody,  \* the text after reTagDelimiter.ReplaceAllString
    fragments,     \* strings.Split(splittedBody, "\n")
    idx,           \* the index of the range loop over fragments
    run,           \* the number of the call of parseMastersSchedule under way
    first          \* history: the roster the first call returned

pageVars == <<page, splittedBody, fragments, idx, run, first>>

parserVars == <<state, masters, alloc, master, month, line, pc, lines,
                hdrSeen, hdrSched, row, closed, rowHead, rowHeads, tableClosed, days>>

daemonVars == <<mainMasters, mainErr, handler, mastersJSON, response, parsed>>

vars == <<parserVars, now, daemonVars, pageVars>>

\* the local variables of the function, as one record
Locals ==
    [state |-> state, masters |-> masters, alloc |-> alloc, master |-> master,
     month |-> month]

\* NewLocals with the month of the call before kept
NewLocalsKeepMonth ==
    [state |-> parserStateContacts, masters |-> <<>>, alloc |-> ZeroMaster,
     master |-> 0, month |-> month]

\* lines 320-324: the locals at the start of a call
NewLocals ==
    [state |-> parserStateContacts, masters |-> <<>>, alloc |-> ZeroMaster,
     master |-> 0, month |-> <<>>]

\* *master
Deref(ps) == IF ps.master = 0 THEN ps.alloc ELSE ps.masters[ps.master]

\* *master = m
Store(ps, m) ==
    IF ps.master = 0 THEN [ps EXCEPT !.alloc = m]
    ELSE [ps EXCEPT !.masters[ps.master] = m]

\* CaseContacts with the table-close marker leading to parserStateDay
CaseContactsToDay(ps, l) ==
    LET s1      == IF l = LTableClose
                   THEN [ps EXCEPT !.state = parserStateDay] ELSE ps
        matches == FindContactName(l)
    IN  IF Len(matches) > 0
        THEN [Store(s1, [Deref(s1) EXCEPT !.Colour = matches[2]])
                 EXCEPT !.state = parserStateName]
        ELSE s1

\* CaseContacts with the whole match stored in place of the submatch
CaseContactsWholeMatch(ps, l) ==
    LET s1      == IF l = LTableClose
                   THEN [ps EXCEPT !.state = parserStateSchedule] ELSE ps
        matches == FindContactName(l)
    IN  IF Len(matches) > 0
        THEN [Store(s1, [Deref(s1) EXCEPT !.Colour = matches[1]])
                 EXCEPT !.state = parserStateName]
        ELSE s1

\* case parserStateContacts
CaseContacts(ps, l) ==
    LET s1      == IF l = LTableClose
                   THEN [ps EXCEPT !.state = parserStateSchedule] ELSE ps
        matches == FindContactName(l)
    IN  IF Len(matches) > 0
        THEN [Store(s1, [Deref(s1) EXCEPT !.Colour = matches[2]])
                 EXCEPT !.state = parserStateName]
        ELSE s1

\* CaseName with the entry appended as soon as it has a name
CaseNameAppend(ps, l) ==
    IF l = <<>> THEN ps
    ELSE IF ~ContainsAny(l, {"<", ">"})
         THEN [ps EXCEPT !.state = parserStateContactInfo,
                         !.masters = Append(ps.masters,
                                            [Deref(ps) EXCEPT !.Current = FALSE, !.Name = l])]
         ELSE ps

\* CaseName with a tag taken for a name
CaseNameAnyLine(ps, l) ==
    IF l = <<>> THEN ps
    ELSE [Store(ps, [Deref(ps) EXCEPT !.Current = FALSE, !.Name = l])
             EXCEPT !.state = parserStateContactInfo]

\* case parserStateName
CaseName(ps, l) ==
    IF l = <<>> THEN ps
    ELSE IF ~ContainsAny(l, {"<", ">"})
         THEN [Store(ps, [Deref(ps) EXCEPT !.Current = FALSE, !.Name = l])
                  EXCEPT !.state = parserStateContactInfo]
         ELSE ps

\* CaseContactInfo with the table-close marker leading to parserStateSchedule
CaseContactInfoTableClose(ps, l) ==
    LET s1    == IF l = LRowClose
                 THEN [ps EXCEPT !.state = parserStateContacts,
                                 !.masters = Append(ps.masters, Deref(ps))]
                 ELSE IF l = LTableClose
                      THEN [ps EXCEPT !.state = parserStateSchedule]
                      ELSE ps
        email == FindContactEmail(l)
        s2    == IF Len(email) > 0
                 THEN Store(s1, [Deref(s1) EXCEPT !.Email = email[1]]) ELSE s1
        slack == FindContactSlack(l)
    IN  IF Len(slack) > 0
        THEN Store(s2, [Deref(s2) EXCEPT !.Slack = slack[1], !.SlackShort = slack[2]])
        ELSE s2

\* case parserStateContactInfo
CaseContactInfo(ps, l) ==
    LET s1    == IF l = LRowClose
                 THEN [ps EXCEPT !.state = parserStateContacts,
                                 !.masters = Append(ps.masters, Deref(ps))]
                 ELSE ps
        email == FindContactEmail(l)
        s2    == IF Len(email) > 0
                 THEN Store(s1, [Deref(s1) EXCEPT !.Email = email[1]]) ELSE s1
        slack == FindContactSlack(l)
    IN  IF Len(slack) > 0
        THEN Store(s2, [Deref(s2) EXCEPT !.Slack = slack[1], !.SlackShort = slack[2]])
        ELSE s2

RECURSIVE ScanMastersFirst(_, _, _)
\* ScanMasters with a break after the first match
ScanMastersFirst(ps, l, i) ==
    IF i > Len(ps.masters) THEN ps
    ELSE IF Contains(l, ps.masters[i].Colour)
         THEN [ps EXCEPT !.master = i, !.state = parserStateDay]
         ELSE ScanMastersFirst(ps, l, i + 1)

RECURSIVE ScanMasters(_, _, _)
\* for i, possibleMaster := range masters, from index i on
ScanMasters(ps, l, i) ==
    IF i > Len(ps.masters) THEN ps
    ELSE ScanMasters(IF Contains(l, ps.masters[i].Colour)
                     THEN [ps EXCEPT !.master = i, !.state = parserStateDay]
                     ELSE ps,
                     l, i + 1)

\* CaseSchedule with the month name stored in lower case
CaseScheduleLower(ps, l) ==
    LET matches == FindContactMonth(l)
        s1      == IF Len(matches) > 0
                   THEN [ps EXCEPT !.month = ToLower(matches[2])] ELSE ps
    IN  ScanMasters(s1, l, 1)

\* case parserStateSchedule
CaseSchedule(ps, l) ==
    LET matches == FindContactMonth(l)
        s1      == IF Len(matches) > 0 THEN [ps EXCEPT !.month = matches[2]] ELSE ps
    IN  ScanMasters(s1, l, 1)

\* CaseDay without the comparison of the months
CaseDayNoMonthCheck(ps, l, t) ==
    LET day  == Atoi(l)
        date == Format(Date(t.Year, MonthNumber(ps.month), day))
        d    == [Month |-> ps.month, Day |-> day, Date |-> date]
        s1   == IF t.Day = day
                THEN Store(ps, [Deref(ps) EXCEPT !.Current = TRUE, !.Today = d])
                ELSE ps
    IN  [Store(s1, [Deref(s1) EXCEPT !.duty = Append(Deref(s1).duty, d)])
            EXCEPT !.state = parserStateSchedule]

\* CaseDay with a cell that is not a number skipped
CaseDaySkipZero(ps, l, t) ==
    LET day  == Atoi(l)
        date == Format(Date(t.Year, MonthNumber(ps.month), day))
        d    == [Month |-> ps.month, Day |-> day, Date |-> date]
        s1   == IF t.Day = day /\ MonthNumber(ps.month) = t.Month
                THEN Store(ps, [Deref(ps) EXCEPT !.Current = TRUE, !.Today = d])
                ELSE ps
    IN  IF day = 0 THEN [ps EXCEPT !.state = parserStateSchedule]
        ELSE [Store(s1, [Deref(s1) EXCEPT !.duty = Append(Deref(s1).duty, d)])
                 EXCEPT !.state = parserStateSchedule]

\* CaseDay with the next state mistaken for parserStateContacts
CaseDayToContacts(ps, l, t) ==
    LET day  == Atoi(l)
        date == Format(Date(t.Year, MonthNumber(ps.month), day))
        d    == [Month |-> ps.month, Day |-> day, Date |-> date]
        s1   == IF t.Day = day /\ MonthNumber(ps.month) = t.Month
                THEN Store(ps, [Deref(ps) EXCEPT !.Current = TRUE, !.Today = d])
                ELSE ps
    IN  [Store(s1, [Deref(s1) EXCEPT !.duty = Append(Deref(s1).duty, d)])
            EXCEPT !.state = parserStateContacts]

\* CaseDay with a blank line skipped
CaseDaySkipBlank(ps, l, t) ==
    LET day  == Atoi(l)
        date == Format(Date(t.Year, MonthNumber(ps.month), day))
        d    == [Month |-> ps.month, Day |-> day, Date |-> date]
        s1   == IF t.Day = day /\ MonthNumber(ps.month) = t.Month
                THEN Store(ps, [Deref(ps) EXCEPT !.Current = TRUE, !.Today = d])
                ELSE ps
    IN  IF l = <<>> THEN ps
        ELSE [Store(s1, [Deref(s1) EXCEPT !.duty = Append(Deref(s1).duty, d)])
                 EXCEPT !.state = parserStateSchedule]

\* CaseDay with Today assigned outside the comparison of the months
CaseDayTodayByDay(ps, l, t) ==
    LET day  == Atoi(l)
        date == Format(Date(t.Year, MonthNumber(ps.month), day))
        d    == [Month |-> ps.month, Day |-> day, Date |-> date]
        s0   == IF t.Day = day
                THEN Store(ps, [Deref(ps) EXCEPT !.Today = d]) ELSE ps
        s1   == IF t.Day = day /\ MonthNumber(ps.month) = t.Month
                THEN Store(s0, [Deref(s0) EXCEPT !.Current = TRUE])
                ELSE s0
    IN  [Store(s1, [Deref(s1) EXCEPT !.duty = Append(Deref(s1).duty, d)])
            EXCEPT !.state = parserStateSchedule]

\* case parserStateDay
CaseDay(ps, l, t) ==
    LET day  == Atoi(l)
        date == Format(Date(t.Year, MonthNumber(ps.month), day))
        d    == [Month |-> ps.month, Day |-> day, Date |-> date]
        s1   == IF t.Day = day /\ MonthNumber(ps.month) = t.Month
                THEN Store(ps, [Deref(ps) EXCEPT !.Current = TRUE, !.Today = d])
                ELSE ps
    IN  [Store(s1, [Deref(s1) EXCEPT !.duty = Append(Deref(s1).duty, d)])
            EXCEPT !.state = parserStateSchedule]

\* one iteration of the loop on the line l, already trimmed
Iterate(ps, l, t) ==
    IF ps.state = parserStateContacts THEN CaseContacts(ps, l)
    ELSE IF ps.state = parserStateName THEN CaseName(ps, l)
    ELSE IF ps.state = parserStateContactInfo THEN CaseContactInfo(ps, l)
    ELSE IF ps.state = parserStateSchedule THEN CaseSchedule(ps, l)
    ELSE CaseDay(ps, l, t)

----------------------------------------------------------------------------
(* History variables, computed from the input alone.                       *)

\* the month word of the latest header-pattern line
NextHdrSeen(l) ==
    LET matches == FindContactMonth(l)
    IN  IF Len(matches) > 0 THEN matches[2] ELSE hdrSeen

\* the same, counting only the lines met in the Schedule state
NextHdrSched(l) ==
    IF state = parserStateSchedule /\ Len(FindContactMonth(l)) > 0
    THEN FindContactMonth(l)[2] ELSE hdrSched

\* the number of row-close markers met in the ContactInfo state
NextClosed(l) ==
    IF state = parserStateContactInfo /\ l = LRowClose THEN closed + 1 ELSE closed

NoContacts == [Email |-> <<>>, Slack |-> <<>>, SlackShort |-> <<>>]

\* the contacts matched on the lines after the latest name line
NextRow(l) ==
    IF state = parserStateName
    THEN (IF l # <<>> /\ ~ContainsAny(l, {"<", ">"}) THEN NoContacts ELSE row)
    ELSE IF state = parserStateContactInfo
         THEN [Email      |-> IF Len(FindContactEmail(l)) > 0
                              THEN FindContactEmail(l)[1] ELSE row.Email,
               Slack      |-> IF Len(FindContactSlack(l)) > 0
                              THEN FindContactSlack(l)[1] ELSE row.Slack,
               SlackShort |-> IF Len(FindContactSlack(l)) > 0
                              THEN FindContactSlack(l)[2] ELSE row.SlackShort]
         ELSE row

\* no row yet
NoHead == [Colour |-> <<>>, Name |-> <<>>, Named |-> TRUE]

\* the colour captured from the latest colour line met in the Contacts state,
\* and the first line after it that is neither blank nor a tag
NextRowHead(l) ==
    IF state = parserStateContacts /\ Len(FindContactName(l)) > 0
    THEN [Colour |-> FindContactName(l)[2], Name |-> <<>>, Named |-> FALSE]
    ELSE IF ~rowHead.Named /\ l # <<>> /\ ~ContainsAny(l, {"<", ">"})
         THEN [rowHead EXCEPT !.Name = l, !.Named = TRUE]
         ELSE rowHead

\* the heads of the rows closed by a row-close marker met in the ContactInfo state
NextRowHeads(l) ==
    IF state = parserStateContactInfo /\ l = LRowClose
    THEN Append(rowHeads, rowHead) ELSE rowHeads

\* a table-close marker was met in the Contacts state
NextTableClosed(l) ==
    tableClosed \/ (state = parserStateContacts /\ l = LTableClose)

\* the number of lines met in the Day state
NextDays == IF state = parserStateDay THEN days + 1 ELSE days

RECURSIVE SumDuty(_)
SumDuty(ms) == IF ms = <<>> THEN 0 ELSE Len(Head(ms).duty) + SumDuty(Tail(ms))

----------------------------------------------------------------------------
(* The loop of parseMastersSchedule, one action per case of the switch.    *)

\* at most this many requests are served
MaxRequests == 2

Requests == 1..MaxRequests

\* the nil error
Nil == "nil"

HandlersInit ==
    /\ mainMasters = <<>>
    /\ mainErr = Nil
    /\ handler = [r \in Requests |-> "parse"]
    /\ mastersJSON = [r \in Requests |-> <<>>]
    /\ response = [r \in Requests |-> <<>>]
    /\ parsed = [r \in Requests |-> <<>>]

Init ==
    /\ HandlersInit
    /\ state = parserStateContacts
    /\ masters = <<>>
    /\ alloc = ZeroMaster
    /\ master = 0
    /\ month = <<>>
    /\ line = <<>>
    /\ pc = "loop"
    /\ now \in Nows
    /\ lines \in Inputs
    /\ hdrSeen = <<>>
    /\ hdrSched = <<>>
    /\ row = NoContacts
    /\ closed = 0
    /\ rowHead = NoHead
    /\ rowHeads = <<>>
    /\ tableClosed = FALSE
    /\ days = 0
    /\ page = <<>>
    /\ splittedBody = <<>>
    /\ fragments = <<>>
    /\ idx = 0
    /\ run = 1
    /\ first = <<>>

\* the assignments of one iteration: the locals become ps, the line read is l
Assign(ps, l) ==
    /\ pc = "loop"
    /\ line' = l
    /\ state' = ps.state
    /\ masters' = ps.masters
    /\ alloc' = ps.alloc
    /\ master' = ps.master
    /\ month' = ps.month
    /\ hdrSeen' = NextHdrSeen(l)
    /\ hdrSched' = NextHdrSched(l)
    /\ row' = NextRow(l)
    /\ closed' = NextClosed(l)
    /\ rowHead' = NextRowHead(l)
    /\ rowHeads' = NextRowHeads(l)
    /\ tableClosed' = NextTableClosed(l)
    /\ days' = NextDays
    /\ UNCHANGED <<pc, now, lines, daemonVars>>

Contacts ==
    /\ state = parserStateContacts
    /\ \E raw \in lines :
          /\ Len(FindContactName(Trim(raw))) > 0 => Len(masters) < MaxMasters
          /\ Assign(CaseContacts(Locals, Trim(raw)), Trim(raw))
    /\ UNCHANGED pageVars

Name ==
    /\ state = parserStateName
    /\ \E raw \in lines : Assign(CaseName(Locals, Trim(raw)), Trim(raw))
    /\ UNCHANGED pageVars

ContactInfo ==
    /\ state = parserStateContactInfo
    /\ \E raw \in lines : Assign(CaseContactInfo(Locals, Trim(raw)), Trim(raw))
    /\ UNCHANGED pageVars

Schedule ==
    /\ state = parserStateSchedule
    /\ \E raw \in lines :
          /\ (\E i \in 1..Len(masters) : Contains(Trim(raw), masters[i].Colour))
                => SumDuty(masters) < MaxDuty
          /\ Assign(CaseSchedule(Locals, Trim(raw)), Trim(raw))
    /\ UNCHANGED pageVars

Day ==
    /\ state = parserStateDay
    /\ \E raw \in lines : Assign(CaseDay(Locals, Trim(raw), now), Trim(raw))
    /\ UNCHANGED pageVars

\* the end of the input: return masters, nil
Return ==
    /\ pc = "loop"
    /\ pc' = "done"
    /\ UNCHANGED <<state, masters, alloc, master, month, line, now, lines,
                   hdrSeen, hdrSched, row, closed, rowHead, rowHeads, tableClosed,
                   days, daemonVars, pageVars>>

Next == Contacts \/ Name \/ ContactInfo \/ Schedule \/ Day \/ Return

Spec == Init /\ [][Next]_vars


----------------------------------------------------------------------------
(* Daemon mode: the handler of lines 168-184, run by one goroutine per     *)
(* request.  masters and err are variables of main that every handler      *)
(* assigns and reads; the statements of different handlers interleave.     *)

\* the fetched page, as the lines strings.Split makes of it
confluencePage == <<LTdRed, LBob, LRowClose, LTableClose, LMay, LTdRed, LDay15>>

RECURSIVE Loop(_, _, _)
\* the for loop of parseMastersSchedule over the lines ls
Loop(ps, ls, t) ==
    IF ls = <<>> THEN ps ELSE Loop(Iterate(ps, Trim(Head(ls)), t), Tail(ls), t)

\* parseMastersSchedule(page), called when time.Now() is t
parseMastersSchedule(ls, t) == Loop(NewLocals, ls, t).masters

\* json.Marshal(masters): the array of the entries, each with its exported
\* fields; duty is not exported
Marshal(ms) ==
    [i \in 1..Len(ms) |->
        [Current |-> ms[i].Current, Today |-> ms[i].Today, Name |-> ms[i].Name,
         Email |-> ms[i].Email, Slack |-> ms[i].Slack,
         SlackShort |-> ms[i].SlackShort, Colour |-> ms[i].Colour]]

\* log.Fatalf has not ended the process
Running == \A r \in Requests : handler[r] # "fatal"

\* line 169: masters, err = parseMastersSchedule(confluencePage)
HandlerParse(r) ==
    /\ Running
    /\ handler[r] = "parse"
    /\ mainMasters' = parseMastersSchedule(confluencePage, now)
    /\ mainErr' = Nil
    /\ parsed' = [parsed EXCEPT ![r] = parseMastersSchedule(confluencePage, now)]
    /\ handler' = [handler EXCEPT ![r] = "checkParse"]
    /\ UNCHANGED <<mastersJSON, response, now, parserVars, pageVars>>

\* lines 170-172 and 176-178: if err != nil { log.Print(err) }
HandlerCheck(r, at, next) ==
    /\ Running
    /\ handler[r] = at
    /\ handler' = [handler EXCEPT ![r] = next]
    /\ UNCHANGED <<mainMasters, mainErr, mastersJSON, response, parsed, now, parserVars, pageVars>>

\* lines 174-175: mastersJSON, err = json.Marshal(masters)
HandlerMarshal(r) ==
    /\ Running
    /\ handler[r] = "marshal"
    /\ mastersJSON' = [mastersJSON EXCEPT ![r] = Marshal(mainMasters)]
    /\ mainErr' = Nil
    /\ handler' = [handler EXCEPT ![r] = "checkMarshal"]
    /\ UNCHANGED <<mainMasters, response, parsed, now, parserVars, pageVars>>

\* line 180: _, err = writer.Write(mastersJSON), which succeeds or fails
HandlerWrite(r) ==
    /\ Running
    /\ handler[r] = "write"
    /\ \E e \in {Nil, "write error"} :
          /\ mainErr' = e
          /\ response' = [response EXCEPT
                             ![r] = IF e = Nil THEN Append(@, mastersJSON[r]) ELSE @]
    /\ handler' = [handler EXCEPT ![r] = "checkWrite"]
    /\ UNCHANGED <<mainMasters, mastersJSON, parsed, now, parserVars, pageVars>>

\* lines 181-183: if err != nil { log.Fatalf(...) }
HandlerCheckWrite(r) ==
    /\ Running
    /\ handler[r] = "checkWrite"
    /\ handler' = [handler EXCEPT ![r] = IF mainErr # Nil THEN "fatal" ELSE "done"]
    /\ UNCHANGED <<mainMasters, mainErr, mastersJSON, response, parsed, now, parserVars, pageVars>>

\* midnight passes
Tick ==
    /\ now \in Nows
    /\ now' = [now EXCEPT !.Day = @ + 1]
    /\ UNCHANGED <<daemonVars, parserVars, pageVars>>

DaemonNext ==
    \/ \E r \in Requests : HandlerParse(r)
    \/ \E r \in Requests : HandlerCheck(r, "checkParse", "marshal")
    \/ \E r \in Requests : HandlerMarshal(r)
    \/ \E r \in Requests : HandlerCheck(r, "checkMarshal", "write")
    \/ \E r \in Requests : HandlerWrite(r)
    \/ \E r \in Requests : HandlerCheckWrite(r)
    \/ Tick

DaemonInit == Init /\ lines = ColourLines

SpecDaemon == DaemonInit /\ [][DaemonNext]_vars

\* C5: every request is isolated: the body written for a request is the
\* serialization of the roster that request's own parse returned.
C5_RequestsIsolated ==
    \A r \in Requests :
        \A i \in 1..Len(response[r]) : response[r][i] = Marshal(parsed[r])

----------------------------------------------------------------------------
(* One-shot mode: main calls parseMastersSchedule on the fetched page      *)
(* (line 194) and filters the roster when -c is given (lines 200-210).     *)
(* The call is followed from the tokenizer to the return.                  *)

\* the line break
NL == "\n"

\* reTagDelimiter, `(>)|(<)`, at the character c: the submatches
\* <<whole, $1, $2>>, or << >> when c is no match
reTagDelimiter(c) ==
    IF c = ">" THEN <<<<">">>, <<">">>, <<>>>>
    ELSE IF c = "<" THEN <<<<"<">>, <<>>, <<"<">>>>
    ELSE <<>>

\* the template with the submatches the other way round
ExpandSwapped(m) == m[3] \o <<NL>> \o m[2]

\* the template "$1\n$2" expanded with the submatches m
Expand(m) == m[2] \o <<NL>> \o m[3]

RECURSIVE ReplaceAllString(_)
\* reTagDelimiter.ReplaceAllString(text, "$1\n$2"): the text before the
\* leftmost match is copied, the match is replaced by the expanded template,
\* and the rest of the text is treated the same way
ReplaceAllString(text) ==
    LET found == {i \in 1..Len(text) : reTagDelimiter(text[i]) # <<>>}
    IN  IF found = {} THEN text
        ELSE SubSeq(text, 1, Min(found) - 1)
                 \o Expand(reTagDelimiter(text[Min(found)]))
                 \o ReplaceAllString(SubSeq(text, Min(found) + 1, Len(text)))

RECURSIVE Split(_)
\* strings.Split(s, "\n"): the piece before the first line break, then the
\* pieces of the rest; a text without a line break is one piece
Split(s) ==
    LET breaks == {i \in 1..Len(s) : s[i] = NL}
    IN  IF breaks = {} THEN <<s>>
        ELSE <<SubSeq(s, 1, Min(breaks) - 1)>>
                 \o Split(SubSeq(s, Min(breaks) + 1, Len(s)))

\* texts of at most this many characters
MaxLen == 4

\* at most this many calls of parseMastersSchedule
MaxRuns == 2

\* the characters of the short texts
Alphabet == {"<", ">", "a", NL}

ShortTexts == UNION {[1..n -> Alphabet] : n \in 0..MaxLen}

\* a page with one roster row, a cell of day 15 before any month header, the
\* header of May and a second cell of day 15
PageHeaderLate ==
    LTdRed \o LBob \o LEmail \o LRowClose \o LTableClose
        \o LTdRed \o LDay15 \o <<NL>> \o LMay \o LTdRed \o LDay15

\* a page with two roster rows and one cell of each under the header of May
PageTwoRows ==
    LTdRed \o LBob \o LRowClose \o LTdReddish \o LBob \o LSlack \o LRowClose
        \o LTableClose \o LMay \o LTdRed \o LDay15 \o LTdReddish \o LDayBig

\* the pages fetched
Texts == ShortTexts \cup {PageHeaderLate, PageTwoRows}

ParseInit ==
    /\ HandlersInit
    /\ state = parserStateContacts
    /\ masters = <<>>
    /\ alloc = ZeroMaster
    /\ master = 0
    /\ month = <<>>
    /\ line = <<>>
    /\ pc = "tokenize"
    /\ now \in Nows
    /\ lines = {}
    /\ hdrSeen = <<>>
    /\ hdrSched = <<>>
    /\ row = NoContacts
    /\ closed = 0
    /\ rowHead = NoHead
    /\ rowHeads = <<>>
    /\ tableClosed = FALSE
    /\ days = 0
    /\ page \in Texts
    /\ splittedBody = <<>>
    /\ fragments = <<>>
    /\ idx = 0
    /\ run = 1
    /\ first = <<>>

\* the index of the iteration after p, skipping one
NextPosSkip(p) == p + 2

\* for _, line := range ...: the index of the iteration after p
NextPos(p) == p + 1

\* lines 316-318: splittedBody := reTagDelimiter.ReplaceAllString(...)
Tokenize ==
    /\ pc = "tokenize"
    /\ splittedBody' = ReplaceAllString(page)
    /\ pc' = "begin"
    /\ UNCHANGED <<state, masters, alloc, master, month, line, now, lines,
                   hdrSeen, hdrSched, row, closed, rowHead, rowHeads, tableClosed,
                   days, daemonVars, page, fragments, idx, run, first>>

\* lines 320-326: the locals, and the slice the loop ranges over
Begin ==
    /\ pc = "begin"
    /\ state' = NewLocals.state
    /\ masters' = NewLocals.masters
    /\ alloc' = NewLocals.alloc
    /\ master' = NewLocals.master
    /\ month' = NewLocals.month
    /\ fragments' = Split(splittedBody)
    /\ idx' = 1
    /\ pc' = "loop"
    /\ line' = <<>>
    /\ hdrSeen' = <<>>
    /\ hdrSched' = <<>>
    /\ row' = NoContacts
    /\ closed' = 0
    /\ rowHead' = NoHead
    /\ rowHeads' = <<>>
    /\ tableClosed' = FALSE
    /\ days' = 0
    /\ UNCHANGED <<now, lines, daemonVars, page, splittedBody, run, first>>

\* lines 326-415: one iteration of the loop, on fragments[idx]
Iteration ==
    /\ pc = "loop"
    /\ idx <= Len(fragments)
    /\ Assign(Iterate(Locals, Trim(fragments[idx]), now), Trim(fragments[idx]))
    /\ idx' = NextPos(idx)
    /\ UNCHANGED <<page, splittedBody, fragments, run, first>>

\* lines 417 and 194: return masters, nil, assigned to masters, err of main
ParseReturn ==
    /\ pc = "loop"
    /\ idx > Len(fragments)
    /\ pc' = "done"
    /\ mainMasters' = masters
    /\ mainErr' = Nil
    /\ first' = IF run = 1 THEN masters ELSE first
    /\ UNCHANGED <<state, masters, alloc, master, month, line, now, lines,
                   hdrSeen, hdrSched, row, closed, rowHead, rowHeads, tableClosed,
                   days, handler, mastersJSON, response, parsed,
                   page, splittedBody, fragments, idx, run>>

\* parseMastersSchedule is called once more on the same page
Again ==
    /\ pc = "done"
    /\ run < MaxRuns
    /\ run' = run + 1
    /\ pc' = "tokenize"
    /\ UNCHANGED <<state, masters, alloc, master, month, line, now, lines,
                   hdrSeen, hdrSched, row, closed, rowHead, rowHeads, tableClosed,
                   days, daemonVars, page, splittedBody, fragments, idx, first>>

RECURSIVE FirstCurrent(_, _)
\* lines 201-207: the first entry with Current = true, or master{}
FirstCurrent(ms, i) ==
    IF i > Len(ms) THEN ZeroMaster
    ELSE IF ms[i].Current THEN ms[i] ELSE FirstCurrent(ms, i + 1)

\* lines 200-210, with -c: masters = []master{currentMaster}
Filter ==
    /\ pc = "done"
    /\ mainMasters' = <<FirstCurrent(mainMasters, 1)>>
    /\ pc' = "filtered"
    /\ UNCHANGED <<state, masters, alloc, master, month, line, now, lines,
                   hdrSeen, hdrSched, row, closed, rowHead, rowHeads, tableClosed,
                   days, mainErr, handler, mastersJSON, response, parsed, pageVars>>

\* the steps of one call
ParseStep == Tokenize \/ Begin \/ Iteration \/ ParseReturn

ParseNext == ParseStep \/ Again \/ Filter

SpecParse == ParseInit /\ [][ParseNext]_vars

\* C13: a second call of parseMastersSchedule on the same page, with the
\* same reference date, returns the roster the first call returned, duty
\* lists, Current and Today included.
C13_SameRoster ==
    (run > 1 /\ pc = "done") => (masters = first /\ mainMasters = first)

\* the second call has returned a roster with an entry on duty whose first
\* cell stood before any month header
C13_Witness ==
    /\ run = 2
    /\ pc = "done"
    /\ page = PageHeaderLate
    /\ Len(masters) = 1
    /\ masters[1].Current
    /\ Len(masters[1].duty) = 2
    /\ masters[1].duty[1].Month = <<>>

\* the tags of the text t among its first n characters: opening, closing
Opening(t, n) == Cardinality({j \in 1..n : t[j] = "<"})

Closing(t, n) == Cardinality({j \in 1..n : t[j] = ">"})

\* the place in splittedBody of the character i of the page
Place(i) == i + Opening(page, i) + Closing(page, i - 1)

\* C14: the tokenizer puts a line break immediately before every '<' and
\* immediately after every '>' and changes nothing else: the characters of
\* the page are in splittedBody in their order, everything between them is
\* an inserted line break, one for each tag character; in the fragments '<'
\* is only a first character and '>' only a last one.
C14_Tokenizer ==
    /\ (pc # "tokenize" \/ run > 1)
          => /\ Len(splittedBody)
                   = Len(page) + Opening(page, Len(page)) + Closing(page, Len(page))
             /\ \A i \in 1..Len(page) : splittedBody[Place(i)] = page[i]
             /\ \A k \in 1..Len(splittedBody) :
                   (\A i \in 1..Len(page) : Place(i) # k) => splittedBody[k] = NL
             /\ \A k \in 1..Len(splittedBody) :
                   /\ splittedBody[k] = "<" => (k > 1 /\ splittedBody[k - 1] = NL)
                   /\ splittedBody[k] = ">"
                         => (k < Len(splittedBody) /\ splittedBody[k + 1] = NL)
    /\ (pc \notin {"tokenize", "begin"} \/ run > 1)
          => \A i \in 1..Len(fragments) : \A k \in 1..Len(fragments[i]) :
                /\ fragments[i][k] = "<" => k = 1
                /\ fragments[i][k] = ">" => k = Len(fragments[i])

\* a text with a closing tag character right before an opening one, and a
\* line break of its own, has been split
C14_Witness ==
    /\ pc = "loop"
    /\ page = <<">", "<", NL, "a">>
    /\ Len(splittedBody) = 6
    /\ Len(fragments) = 4

\* no fragment is the table-close marker or a colour line
NoPattern(fs) ==
    \A i \in 1..Len(fs) :
        /\ TrimSpace(fs[i]) # LTableClose
        /\ reContactName(TrimSpace(fs[i])) = <<>>

\* the pc values of a call under way
Calling == {"tokenize", "begin", "loop"}

\* a bound on the steps a call has yet to take: the fragments are one more
\* than the line breaks of splittedBody, at most two for each character of
\* the page
StepsLeft ==
    IF pc = "tokenize" THEN 2 * Len(page) + 4
    ELSE IF pc = "begin" THEN 2 * Len(page) + 3
    ELSE IF pc = "loop" THEN Len(fragments) + 2 - idx
    ELSE 0

\* C15: every call returns: each of its steps brings the return nearer, and
\* in the loop either a fragment is left to take or the return is due; the
\* loop takes the fragments one by one in their order, each once, and
\* returns when they are exhausted, with no error; when no fragment is a
\* table-close marker or a colour line the parser is still in Contacts at
\* the end and the roster is empty.
C15_Terminates ==
    /\ [][(pc \in Calling)
            => /\ pc' \in Calling \cup {"done"}
               /\ StepsLeft' < StepsLeft
               /\ StepsLeft' >= 0]_vars
    /\ [](pc = "loop" => idx \in 1..(Len(fragments) + 1))
    /\ [][(pc = "loop" /\ pc' = "loop")
            => /\ idx <= Len(fragments)
               /\ idx' = idx + 1
               /\ fragments' = fragments
               /\ line' = TrimSpace(fragments[idx])]_vars
    /\ [][(pc = "loop" /\ pc' = "done") => idx = Len(fragments) + 1]_vars
    /\ [](pc = "done"
            => /\ idx = Len(fragments) + 1
               /\ mainErr = Nil
               /\ mainMasters = masters)
    /\ []((pc = "done" /\ NoPattern(fragments))
            => (state = parserStateContacts /\ masters = <<>>))

\* a text with a tag and bare text, none of them a pattern, has been parsed
C15_Witness ==
    /\ pc = "done"
    /\ idx = Len(fragments) + 1
    /\ Len(fragments) >= 3
    /\ NoPattern(fragments)
    /\ \E i \in 1..Len(fragments) :
          Len(fragments[i]) >= 2 /\ fragments[i][1] = "<"

\* C16: with -c the output is one record, an entry of the parsed roster
\* whose Current is true, whatever the parse returned.
C16_CurrentOnly ==
    pc = "filtered"
        => /\ Len(mainMasters) = 1
           /\ mainMasters[1].Current
           /\ \E i \in 1..Len(masters) : masters[i] = mainMasters[1]

----------------------------------------------------------------------------
(* Properties of the parser.                                               *)

\* the roster entries whose colour the line l contains
MatchSet(ms, l) == {i \in 1..Len(ms) : Contains(l, ms[i].Colour)}

\* the iteration made in the Day state
DayStep == state = parserStateDay /\ state' = parserStateSchedule

\* the duty record the latest Day iteration appended
Last(s) == s[Len(s)]

\* C1, as stated: a cell whose line contains the colours of several roster
\* entries is attributed to the first of them in roster order.
C1_FirstEntry ==
    (state = parserStateDay /\ Cardinality(MatchSet(masters, line)) > 1)
        => master = Min(MatchSet(masters, line))

\* C1, amended: a cell whose line contains the colours of several roster
\* entries is attributed to the LAST of them in roster order; that entry is
\* the active person, and the record of the following Day line is appended
\* to its duty list and to no other.
C1_LastEntry ==
    [][(state = parserStateDay /\ Cardinality(MatchSet(masters, line)) > 1 /\ DayStep)
          => LET k == Max(MatchSet(masters, line))
             IN  /\ master = k
                 /\ Len(masters') = Len(masters)
                 /\ Len(masters'[k].duty) = Len(masters[k].duty) + 1
                 /\ SubSeq(masters'[k].duty, 1, Len(masters[k].duty)) = masters[k].duty
                 /\ \A i \in 1..Len(masters) : i # k => masters'[i] = masters[i]]_vars

\* a cell of the longer colour has been attributed, with both colours in the roster
C1_Witness ==
    /\ state = parserStateSchedule
    /\ Len(masters) = 2
    /\ masters[1].Colour # masters[2].Colour
    /\ Contains(masters[2].Colour, masters[1].Colour)
    /\ masters[2].duty # <<>>

\* C2: the roster one parse returns has at most one entry with Current = true.
C2_AtMostOneCurrent ==
    pc = "done" => Cardinality({i \in 1..Len(masters) : masters[i].Current}) <= 1

\* C3: Current becomes true only in a Day iteration, for the active entry,
\* when the day of the line is today's day and the active month resolves to
\* today's month; an entry with Current = true has such a record in its own
\* duty list; a cell of day 0 or of an unresolved month never sets Current.
C3_CurrentOnlyToday ==
    /\ [][\A i \in 1..Len(masters') :
            (masters'[i].Current /\ ~(i <= Len(masters) /\ masters[i].Current))
               => /\ DayStep
                  /\ master = i
                  /\ Last(masters'[i].duty).Day = now.Day
                  /\ MonthNumber(month) = now.Month
                  /\ MonthNumber(Last(masters'[i].duty).Month) = now.Month]_vars
    /\ [](\A i \in 1..Len(masters) :
            masters[i].Current
               => \E k \in 1..Len(masters[i].duty) :
                     /\ masters[i].duty[k].Day = now.Day
                     /\ MonthNumber(masters[i].duty[k].Month) = now.Month)
    /\ [][(DayStep /\ (Last(masters'[master].duty).Day = 0 \/ MonthNumber(month) = 0))
            => masters'[master].Current = masters[master].Current]_vars
    /\ [](~alloc.Current)

\* one entry is on duty today, another has a cell that is not today's
C3_Witness ==
    \E i, j \in 1..Len(masters) :
        /\ masters[i].Current
        /\ ~masters[j].Current
        /\ masters[j].duty # <<>>

\* C4: the contacts of an entry are those matched on the lines between its
\* own name line and its own row-close marker.
C4_OwnContacts ==
    (state = parserStateContacts /\ masters # <<>>)
        => /\ Last(masters).Email = row.Email
           /\ Last(masters).Slack = row.Slack
           /\ Last(masters).SlackShort = row.SlackShort

\* C6, as stated: the Month of every appended record is the month word of
\* the latest header-pattern line that precedes the day cell, wherever that
\* line stood in the input.
C6_LatestHeaderAnywhere ==
    [][DayStep => Last(masters'[master].duty).Month = hdrSeen]_vars

\* C6, amended: the Month of every appended record is, case preserved, the
\* month word of the latest header-pattern line met in the Schedule state
\* before the day cell, and is empty only if there was none; a header-pattern
\* line met in another state does not count.
C6_LatestScheduleHeader ==
    [][DayStep => Last(masters'[master].duty).Month = hdrSched]_vars

\* a record carries a capitalised month while a later header was met elsewhere
C6_Witness ==
    \E i \in 1..Len(masters) : \E k \in 1..Len(masters[i].duty) :
        /\ masters[i].duty[k].Month # <<>>
        /\ ToLower(masters[i].duty[k].Month) # masters[i].duty[k].Month

\* the digits of a line that is an optionally signed decimal numeral
NumeralDigits(l) == IF Len(l) > 0 /\ l[1] \in {"+", "-"} THEN Tail(l) ELSE l

\* the line is an integer
IsNumeral(l) ==
    /\ NumeralDigits(l) # <<>>
    /\ \A i \in 1..Len(NumeralDigits(l)) : NumeralDigits(l)[i] \in DigitChars

RECURSIVE StripZeros(_)
StripZeros(ds) == IF Len(ds) > 1 /\ Head(ds) = "0" THEN StripZeros(Tail(ds)) ELSE ds

\* the decimal numeral of the integer n
Decimal(n) ==
    IF n = MinInt THEN <<"-">> \o Itoa(MaxInt \div 10) \o <<Digits[(MaxInt % 10) + 2]>>
    ELSE IF n < 0 THEN <<"-">> \o Itoa(-n) ELSE Itoa(n)

\* the numeral l without a plus sign, leading zeros or a sign of zero
Canonical(l) ==
    LET ds == StripZeros(NumeralDigits(l))
    IN  IF l[1] = "-" /\ ds # <<"0">> THEN <<"-">> \o ds ELSE ds

\* numerals without sign or leading zeros: a <= b
LeqNumeral(a, b) ==
    \/ Len(a) < Len(b)
    \/ a = b
    \/ /\ Len(a) = Len(b)
       /\ \E i \in 1..Len(a) :
             /\ \A k \in 1..(i - 1) : a[k] = b[k]
             /\ DigitVal(a[i]) < DigitVal(b[i])

\* the integer of the numeral l is in the range of int
FitsInt(l) ==
    \/ LeqNumeral(StripZeros(NumeralDigits(l)), Itoa(MaxInt))
    \/ Canonical(l) = Decimal(MinInt)

\* the Day iteration appends one record to the active entry and changes
\* nothing else but, possibly, that entry's Current and Today
AppendsOneRecord ==
    /\ master \in 1..Len(masters)
    /\ Len(masters') = Len(masters)
    /\ Len(masters'[master].duty) = Len(masters[master].duty) + 1
    /\ SubSeq(masters'[master].duty, 1, Len(masters[master].duty)) = masters[master].duty
    /\ \A i \in 1..Len(masters) : i # master => masters'[i] = masters[i]
    /\ alloc' = alloc /\ month' = month /\ master' = master

\* C7, as stated: every Day iteration appends one record to the active
\* entry, its Day being the integer of the line, or 0 when the line is empty
\* or not an integer; a line that is not an integer changes nothing else.
C7_DayIsLineValue ==
    [][DayStep
          => /\ AppendsOneRecord
             /\ IsNumeral(line')
                   => Decimal(Last(masters'[master].duty).Day) = Canonical(line')
             /\ ~IsNumeral(line')
                   => /\ Last(masters'[master].duty).Day = 0
                      /\ masters'[master].Current = masters[master].Current
                      /\ masters'[master].Today = masters[master].Today]_vars

\* C7, amended: every Day iteration appends one record to the active entry;
\* its Day is the integer of the line when the line is an integer in the
\* range of int, the nearest bound of int when it is an integer out of that
\* range, and 0 when the line is empty or not an integer; a line that is not
\* an integer changes nothing else.
C7_DayIsAtoi ==
    [][DayStep
          => /\ AppendsOneRecord
             /\ (IsNumeral(line') /\ FitsInt(line'))
                   => Decimal(Last(masters'[master].duty).Day) = Canonical(line')
             /\ (IsNumeral(line') /\ ~FitsInt(line'))
                   => Last(masters'[master].duty).Day
                         = (IF line'[1] = "-" THEN MinInt ELSE MaxInt)
             /\ ~IsNumeral(line')
                   => /\ Last(masters'[master].duty).Day = 0
                      /\ masters'[master].Current = masters[master].Current
                      /\ masters'[master].Today = masters[master].Today]_vars

\* an empty cell has just left a record of day 0 behind a record of a numbered cell
C7_Witness ==
    /\ state = parserStateSchedule
    /\ line = <<>>
    /\ \E i \in 1..Len(masters) :
          /\ Len(masters[i].duty) = 2
          /\ masters[i].duty[1].Day > 0
          /\ masters[i].duty[2].Day = 0

\* the number of days of month m of year y
DaysIn(y, m) ==
    IF m = 2 THEN (IF y % 4 = 0 /\ (y % 100 # 0 \/ y % 400 = 0) THEN 29 ELSE 28)
    ELSE IF m \in {4, 6, 9, 11} THEN 30 ELSE 31

\* every duty record of the roster
AllDuty == UNION {Range(masters[i].duty) : i \in 1..Len(masters)}

\* C8: the Date of every record of day 0..31 has the current year as its
\* year, whatever the month resolves to, and is the rendering of that year,
\* the resolved month and the day whenever these name a day of the calendar.
C8_DateInCurrentYear ==
    \A r \in AllDuty :
        r.Day \in 0..31
           => /\ SubSeq(r.Date, 1, 4) = Pad(Itoa(now.Year), 4)
              /\ (MonthNumber(r.Month) \in 1..12
                     /\ r.Day \in 1..DaysIn(now.Year, MonthNumber(r.Month)))
                    => r.Date = Pad(Itoa(now.Year), 4) \o <<"-">>
                                \o Pad(Itoa(MonthNumber(r.Month)), 2) \o <<"-">>
                                \o Pad(Itoa(r.Day), 2)

\* C9: the roster grows only by one entry, in the ContactInfo state, on a
\* row-close marker, and grows on every such marker; an entry whose row-close
\* marker the input does not reach is not returned.
C9_AppendOnRowClose ==
    /\ [][Len(masters') # Len(masters)
            => /\ state = parserStateContactInfo
               /\ line' = LRowClose
               /\ masters' = Append(masters, alloc)]_vars
    /\ [][(state = parserStateContactInfo /\ line' = LRowClose)
            => Len(masters') = Len(masters) + 1]_vars
    /\ [](Len(masters) = closed)

\* the input ended in a row after an earlier row was closed
C9_Witness ==
    /\ pc = "done"
    /\ state = parserStateContactInfo
    /\ closed = 1
    /\ Len(masters) = 1

\* the fields of an entry the calendar never changes
Identity(m) == <<m.Colour, m.Name, m.Email, m.Slack, m.SlackShort>>

\* C10: from the Schedule state the parser only moves between Schedule and
\* Day, and the roster keeps its length, its order and every entry's Colour,
\* Name, Email and chat handles.
C10_RosterFrozen ==
    [][(state \in {parserStateSchedule, parserStateDay})
          => /\ state' \in {parserStateSchedule, parserStateDay}
             /\ Len(masters') = Len(masters)
             /\ \A i \in 1..Len(masters) : Identity(masters'[i]) = Identity(masters[i])]_vars

\* the calendar has changed the duty data of an entry
C10_Witness ==
    /\ state = parserStateSchedule
    /\ \E i \in 1..Len(masters) :
          /\ masters[i].Current
          /\ masters[i].Today # ZeroDuty
          /\ Len(masters[i].duty) = 2

\* the roster states and the calendar states
RosterStates == {parserStateContacts, parserStateName, parserStateContactInfo}

CalendarStates == {parserStateSchedule, parserStateDay}

\* C11: when the roster table closes on an empty roster, the Day state is
\* never entered whatever lines follow, no duty record is created, and the
\* roster stays, and is returned, empty.
C11_EmptyRoster ==
    /\ []((tableClosed /\ masters = <<>>)
            => /\ state = parserStateSchedule
               /\ alloc.duty = <<>>
               /\ days = 0)
    /\ [][(tableClosed /\ masters = <<>>)
            => (masters' = <<>> /\ state' = parserStateSchedule)]_vars

\* a colour cell was scanned after the table closed on an empty roster, and
\* the parse returned
C11_Witness ==
    /\ pc = "done"
    /\ tableClosed
    /\ masters = <<>>
    /\ line = LTdRed

\* C12: every roster entry has a non-empty Colour, the colour expression
\* captured from the colour line, met in the Contacts state, that started the
\* entry's own row.
C12_OwnColour ==
    /\ Len(masters) = Len(rowHeads)
    /\ \A i \in 1..Len(masters) :
          /\ masters[i].Colour # <<>>
          /\ masters[i].Colour = rowHeads[i].Colour

\* two rows of different colours were returned
C12_Witness ==
    /\ pc = "done"
    /\ Len(masters) = 2
    /\ Len(masters[1].Colour) > Len(masters[2].Colour)
    /\ masters[2].Colour = rowHeads[2].Colour

\* C17: from the roster states the parser enters the calendar only from
\* Contacts, into Schedule, on a line equal to the table-close marker; a
\* table-close marker met in Name or ContactInfo changes nothing; no duty
\* record exists before a table-close marker was met in the Contacts state.
C17_ScheduleFromContacts ==
    /\ [][(state \in RosterStates /\ state' \in CalendarStates)
            => /\ state = parserStateContacts
               /\ line' = LTableClose
               /\ state' = parserStateSchedule]_vars
    /\ [][(state = parserStateContacts /\ line' = LTableClose)
            => state' = parserStateSchedule]_vars
    /\ [][(state \in {parserStateName, parserStateContactInfo} /\ line' = LTableClose)
            => UNCHANGED <<state, masters, alloc, master, month>>]_vars
    /\ [](~tableClosed
            => /\ state \in RosterStates
               /\ alloc.duty = <<>>
               /\ \A i \in 1..Len(masters) : masters[i].duty = <<>>)

\* the input ended on a table-close marker met inside the second row
C17_Witness ==
    /\ pc = "done"
    /\ ~tableClosed
    /\ line = LTableClose
    /\ state = parserStateContactInfo
    /\ Len(masters) = 1

\* the line is neither blank nor a tag
BareText(l) == l # <<>> /\ ~ContainsAny(l, {"<", ">"})

\* C18: in the Name state a blank line or a line with an angle bracket
\* changes nothing; the first other line becomes the Name and leads to
\* ContactInfo; every roster entry has a non-empty Name without an angle
\* bracket, the first bare-text line after the colour line of its row.
C18_NameLine ==
    /\ [][(state = parserStateName /\ ~BareText(line'))
            => UNCHANGED <<state, masters, alloc, master, month>>]_vars
    /\ [][(state = parserStateName /\ BareText(line'))
            => /\ state' = parserStateContactInfo
               /\ alloc'.Name = line'
               /\ masters' = masters]_vars
    /\ [](/\ Len(masters) = Len(rowHeads)
          /\ \A i \in 1..Len(masters) :
                /\ BareText(masters[i].Name)
                /\ masters[i].Name = rowHeads[i].Name)

\* a blank line is passed over in the Name state of the second row
C18_Witness ==
    /\ state = parserStateName
    /\ line = <<>>
    /\ Len(masters) = 1
    /\ masters[1].Name = Trim(LBob)

\* C19: the Day state lasts one line, whatever the line is: the next line
\* of the input, if there is one, is taken as a day, one record is appended to the active entry and to no
\* other, behind its earlier records, and the parser is back in Schedule; the
\* line after a colour-matched Schedule line is met in the Day state; the
\* records of the roster are as many as the lines met in the Day state.
C19_DayOneFragment ==
    /\ [][(state = parserStateDay /\ pc' = "loop")
            => /\ state' = parserStateSchedule
               /\ AppendsOneRecord]_vars
    /\ [][(state = parserStateSchedule /\ pc' = "loop" /\ MatchSet(masters, line') # {})
            => state' = parserStateDay]_vars
    /\ [](SumDuty(masters) = days /\ alloc.duty = <<>>)

\* a month header was met in the Day state and taken as a day
C19_Witness ==
    /\ state = parserStateSchedule
    /\ line = Trim(LMay)
    /\ hdrSched = <<>>
    /\ days = 2
    /\ \E i \in 1..Len(masters) : Len(masters[i].duty) = 2

\* the entry has a record of today's day under today's month
HasTodayCell(m) ==
    \E k \in 1..Len(m.duty) :
        /\ m.duty[k].Day = now.Day
        /\ MonthNumber(m.duty[k].Month) = now.Month

\* C20: an entry has Current = true exactly when its Today is populated;
\* Today then has today's day and a month that resolves to today's month,
\* and is one of the entry's own duty records; an entry without a cell of
\* today keeps Current = false and the zero Today.
C20_TodayIffCurrent ==
    /\ ~alloc.Current
    /\ alloc.Today = ZeroDuty
    /\ \A i \in 1..Len(masters) :
          /\ masters[i].Current <=> masters[i].Today # ZeroDuty
          /\ masters[i].Current
                => /\ masters[i].Today.Day = now.Day
                   /\ MonthNumber(masters[i].Today.Month) = now.Month
                   /\ \E k \in 1..Len(masters[i].duty) :
                         masters[i].duty[k] = masters[i].Today
          /\ ~HasTodayCell(masters[i])
                => (~masters[i].Current /\ masters[i].Today = ZeroDuty)

\* one entry is on duty today; another has a cell of today's day under a
\* month that is not today's
C20_Witness ==
    \E i, j \in 1..Len(masters) :
        /\ masters[i].Current
        /\ masters[i].Today = masters[i].duty[1]
        /\ ~masters[j].Current
        /\ masters[j].Today = ZeroDuty
        /\ masters[j].duty # <<>>
        /\ masters[j].duty[1].Day = now.Day

====
